---- MODULE Spec2Model ----
(***************************************************************************)
(* Model of src/app/chat.py: ChatMessage, DaprChatManager (connection      *)
(* lifecycle, publish, subscribe, dispatch, chat history load and save)    *)
(* and the wire form shared by the pub/sub payload and the persisted log.  *)
(***************************************************************************)
EXTENDS Integers, Sequences, FiniteSets, TLC

\* ------------------------------------------------------------------ bounds
\* Longest chat history passed to save_chat_history / kept in the state store.
MaxLog == 2
\* Largest limit passed to get_chat_history.
MaxLimit == 4
\* Number of DaprClient objects one manager may create.
MaxConns == 2

\* ------------------------------------------------------- datetime text form
\* datetime (src/app/chat.py:22) is a record
\*   [year, month, day, hour, minute, second, microsecond, tz]
\* where tz is NoTz (the empty tuple) for a naive datetime and otherwise
\* <<offset>>, the UTC offset in whole seconds.  Text is a sequence of
\* one-character strings.
NoTz == <<>>

Digits == <<"0", "1", "2", "3", "4", "5", "6", "7", "8", "9">>

IsDigit(c) == \E i \in 1..10 : Digits[i] = c

DigitVal(c) == (CHOOSE i \in 1..10 : Digits[i] = c) - 1

RECURSIVE Pow10(_)
Pow10(n) == IF n = 0 THEN 1 ELSE 10 * Pow10(n - 1)

\* "%0wd" % n
Pad(n, w) == [i \in 1..w |-> Digits[((n \div Pow10(w - i)) % 10) + 1]]

Abs(n) == IF n < 0 THEN -n ELSE n

\* s[i:j] of Python (0-based, j exclusive), clipped to the text
Slice(s, i, j) ==
    LET hi == IF j > Len(s) THEN Len(s) ELSE j
    IN  IF i >= hi THEN <<>> ELSE SubSeq(s, i + 1, hi)

AllDigits(s) == \A i \in 1..Len(s) : IsDigit(s[i])

RECURSIVE Num(_)
Num(s) == IF s = <<>> THEN 0
          ELSE Num(SubSeq(s, 1, Len(s) - 1)) * 10 + DigitVal(s[Len(s)])

\* int(text) succeeds
IsInt(s) == Len(s) > 0 /\ AllDigits(s)

\* datetime.isoformat(): YYYY-MM-DDTHH:MM:SS[.ffffff][+HH:MM[:SS]]
UtcOffsetText(tz) ==
    IF tz = NoTz THEN <<>>
    ELSE LET a  == Abs(tz[1])
             hh == a \div 3600
             mm == (a % 3600) \div 60
             ss == a % 60
         IN  <<IF tz[1] < 0 THEN "-" ELSE "+">> \o Pad(hh, 2) \o <<":">> \o Pad(mm, 2)
               \o (IF ss # 0 THEN <<":">> \o Pad(ss, 2) ELSE <<>>)

\* isoformat(timespec='seconds'): the microseconds are not written.
isoformat_seconds(dt) ==
    Pad(dt.year, 4) \o <<"-">> \o Pad(dt.month, 2) \o <<"-">> \o Pad(dt.day, 2)
      \o <<"T">>
      \o Pad(dt.hour, 2) \o <<":">> \o Pad(dt.minute, 2) \o <<":">> \o Pad(dt.second, 2)
      \o UtcOffsetText(dt.tz)

isoformat(dt) ==
    Pad(dt.year, 4) \o <<"-">> \o Pad(dt.month, 2) \o <<"-">> \o Pad(dt.day, 2)
      \o <<"T">>
      \o Pad(dt.hour, 2) \o <<":">> \o Pad(dt.minute, 2) \o <<":">> \o Pad(dt.second, 2)
      \o (IF dt.microsecond # 0 THEN <<".">> \o Pad(dt.microsecond, 6) ELSE <<>>)
      \o UtcOffsetText(dt.tz)

IsLeap(y) == (y % 4 = 0) /\ ((y % 100 # 0) \/ (y % 400 = 0))

DaysInMonth(y, m) ==
    IF m = 2 THEN (IF IsLeap(y) THEN 29 ELSE 28)
    ELSE IF m \in {4, 6, 9, 11} THEN 30 ELSE 31

\* str.find(c) + 1: the 1-based position of the first c, 0 when absent
Find1(s, c) ==
    IF \E i \in 1..Len(s) : s[i] = c
    THEN CHOOSE i \in 1..Len(s) : s[i] = c /\ \A j \in 1..(i - 1) : s[j] # c
    ELSE 0

\* HH[:MM[:SS[.fff[fff]]]] -> [ok, h, m, s, us]
BadTime == [ok |-> FALSE, h |-> 0, m |-> 0, s |-> 0, us |-> 0]

ParseHhMmSsFf(t) ==
    LET n == Len(t)
        wellFormed ==
            /\ n \in {2, 5, 8, 12, 15}
            /\ IsInt(Slice(t, 0, 2))
            /\ n >= 5 => (t[3] = ":" /\ IsInt(Slice(t, 3, 5)))
            /\ n >= 8 => (t[6] = ":" /\ IsInt(Slice(t, 6, 8)))
            /\ n >= 12 => (t[9] = "." /\ IsInt(Slice(t, 9, n)))
    IN  IF ~wellFormed THEN BadTime
        ELSE [ok |-> TRUE,
              h  |-> Num(Slice(t, 0, 2)),
              m  |-> IF n >= 5 THEN Num(Slice(t, 3, 5)) ELSE 0,
              s  |-> IF n >= 8 THEN Num(Slice(t, 6, 8)) ELSE 0,
              us |-> IF n = 12 THEN Num(Slice(t, 9, n)) * 1000
                     ELSE IF n = 15 THEN Num(Slice(t, 9, n)) ELSE 0]

\* datetime.fromisoformat(text) -> [ok |-> FALSE] on ValueError, else
\* [ok |-> TRUE, value |-> datetime]
BadDatetime == [ok |-> FALSE]

fromisoformat(s) ==
    LET dateOk ==
            /\ Len(s) >= 10
            /\ IsInt(Slice(s, 0, 4)) /\ s[5] = "-"
            /\ IsInt(Slice(s, 5, 7)) /\ s[8] = "-"
            /\ IsInt(Slice(s, 8, 10))
        tstr   == Slice(s, 11, Len(s))
        minus  == Find1(tstr, "-")
        tzPos  == IF minus # 0 THEN minus ELSE Find1(tstr, "+")
        timstr == IF tzPos > 0 THEN Slice(tstr, 0, tzPos - 1) ELSE tstr
        tzstr  == IF tzPos > 0 THEN Slice(tstr, tzPos, Len(tstr)) ELSE <<>>
        tm     == IF tstr = <<>> THEN [BadTime EXCEPT !.ok = TRUE]
                  ELSE ParseHhMmSsFf(timstr)
        tzc    == IF tzPos > 0 /\ Len(tzstr) \in {5, 8}
                  THEN ParseHhMmSsFf(tzstr) ELSE BadTime
        sign   == IF tzPos > 0 /\ tstr[tzPos] = "-" THEN -1 ELSE 1
        off    == sign * (tzc.h * 3600 + tzc.m * 60 + tzc.s)
        y      == Num(Slice(s, 0, 4))
        mo     == Num(Slice(s, 5, 7))
        d      == Num(Slice(s, 8, 10))
    IN  IF ~dateOk \/ Len(s) = 11 THEN BadDatetime
        ELSE IF ~tm.ok \/ (tzPos > 0 /\ ~tzc.ok) THEN BadDatetime
        ELSE IF ~(/\ y \in 1..9999 /\ mo \in 1..12 /\ d \in 1..DaysInMonth(y, mo)
                  /\ tm.h \in 0..23 /\ tm.m \in 0..59 /\ tm.s \in 0..59
                  /\ (tzPos > 0 => (off > -86400 /\ off < 86400)))
        THEN BadDatetime
        ELSE [ok |-> TRUE,
              value |-> [year |-> y, month |-> mo, day |-> d,
                         hour |-> tm.h, minute |-> tm.m, second |-> tm.s,
                         microsecond |-> tm.us,
                         tz |-> IF tzPos > 0 THEN <<off>> ELSE NoTz]]

\* ------------------------------------------------------------ ChatMessage
AgentNames == {"A", "B", "C"}

\* Handler callables passed to subscribe_to_messages.
Handlers == {"h1", "h2"}

Naive(y, mo, d, h, mi, sec, us) ==
    [year |-> y, month |-> mo, day |-> d, hour |-> h, minute |-> mi,
     second |-> sec, microsecond |-> us, tz |-> NoTz]

ChatMessage(a, r, c, t, id) ==
    [agent_name |-> a, role |-> r, content |-> c, timestamp |-> t, message_id |-> id]

M1 == ChatMessage("A", "assistant", "analysis", Naive(2024, 2, 29, 9, 5, 0, 0), "id-1")
M2 == ChatMessage("B", "assistant", "code", Naive(2024, 2, 29, 9, 5, 7, 250000), "id-2")
M3 == ChatMessage("C", "system", "review",
                  [Naive(2024, 3, 1, 23, 59, 59, 1) EXCEPT !.tz = <<19800>>], "id-3")

\* The messages the bus and the history operations are driven with.
Messages == {M1, M2, M3}

FieldNames == {"agent_name", "role", "content", "timestamp", "message_id"}

\* ------------------------------------------------------------- JSON text
\* A JSON text is modelled by the document it denotes: [valid, doc]; text
\* that is not JSON has valid = FALSE.
json_dumps(doc) == [valid |-> TRUE, doc |-> doc]

NotJson == [valid |-> FALSE, doc |-> <<>>]

\* ------------------------------------------------------------- wire form
\* The dict built by publish_message for one message.
MessageData(message) ==
    [agent_name |-> message.agent_name,
     role       |-> message.role,
     content    |-> message.content,
     timestamp  |-> isoformat(message.timestamp),
     message_id |-> message.message_id]

\* The dict save_chat_history appends for one message.
HistoryEntry(msg) ==
    [agent_name |-> msg.agent_name,
     role       |-> msg.role,
     content    |-> msg.content,
     timestamp  |-> isoformat(msg.timestamp),
     message_id |-> msg.message_id]

\* ChatMessage(...) built from a decoded dict: [ok |-> FALSE] when a key is
\* missing (KeyError) or the timestamp does not parse (ValueError).
Undecodable == [ok |-> FALSE]

\* DecodeMessage reading message_id with a default instead of indexing.
DecodeMessageLenient(message_data) ==
    IF ~({"agent_name", "role", "content", "timestamp"} \subseteq DOMAIN message_data)
    THEN Undecodable
    ELSE IF ~fromisoformat(message_data.timestamp).ok THEN Undecodable
    ELSE [ok |-> TRUE,
          value |-> ChatMessage(message_data.agent_name, message_data.role,
                                message_data.content,
                                fromisoformat(message_data.timestamp).value,
                                IF "message_id" \in DOMAIN message_data
                                THEN message_data.message_id ELSE "")]

DecodeMessage(message_data) ==
    IF ~({"agent_name", "role", "content", "timestamp"} \subseteq DOMAIN message_data)
    THEN Undecodable
    ELSE IF ~fromisoformat(message_data.timestamp).ok THEN Undecodable
    ELSE IF "message_id" \notin DOMAIN message_data THEN Undecodable
    ELSE [ok |-> TRUE,
          value |-> ChatMessage(message_data.agent_name, message_data.role,
                                message_data.content,
                                fromisoformat(message_data.timestamp).value,
                                message_data.message_id)]

DecodeEntry(msg_data) ==
    IF ~({"agent_name", "role", "content", "timestamp"} \subseteq DOMAIN msg_data)
    THEN Undecodable
    ELSE IF ~fromisoformat(msg_data.timestamp).ok THEN Undecodable
    ELSE IF "message_id" \notin DOMAIN msg_data THEN Undecodable
    ELSE [ok |-> TRUE,
          value |-> ChatMessage(msg_data.agent_name, msg_data.role, msg_data.content,
                                fromisoformat(msg_data.timestamp).value,
                                msg_data.message_id)]

\* ------------------------------------------------------------------ state
VARIABLES
    client,            \* self.client: 0 for None, else the DaprClient created n-th
    conns,             \* the DaprClient objects created so far: "open" / "closed"
    message_handlers,  \* self.message_handlers, in dict (insertion) order
    store,             \* state store, key chat-history: <<>> absent, else <<text>>
    lastSave,          \* <<>> or <<messages>> of the latest save that was written
    lastSubscribe,     \* per agent name, the handler of the latest subscribe ("" if none)
    firstOrder,        \* agent names in the order of their first subscribe
    lastOrder,         \* agent names in the order of their latest subscribe (SpecOrder)
    last,              \* the operation completed last and what it did
    codec,             \* one message taken through the wire form and back
    proc               \* the processes of the multi-step scenarios

vars == <<client, conns, message_handlers, store, lastSave, lastSubscribe, firstOrder,
          lastOrder, last, codec, proc>>

Idle == [op |-> "none", outcome |-> "returned", arg |-> <<>>, result |-> <<>>,
         calls |-> <<>>, logged |-> "none"]

CodecIdle == [pc |-> "idle"]

NoProc == [pc |-> "idle"]

\* The log under the key given the record of the last successful save.
Persisted0(saved) == IF saved = <<>> THEN <<>> ELSE saved[1]

Init ==
    /\ client = 0
    /\ conns = <<>>
    /\ message_handlers = <<>>
    /\ store = <<>>
    /\ lastSave = <<>>
    /\ lastSubscribe = [a \in AgentNames |-> ""]
    /\ firstOrder = <<>>
    /\ lastOrder = <<>>
    /\ last = Idle
    /\ codec = CodecIdle
    /\ proc = NoProc

\* A call made on the transport during an operation: on which client, with
\* what argument, and whether it succeeded.
Call(name, conn, arg, ok) ==
    [name |-> name, conn |-> conn, handler |-> "", key |-> "", arg |-> arg, ok |-> ok]

\* A handler invoked by dispatch: the callable, the name it is registered under.
HandlerCall(handler, key, message, ok) ==
    [name |-> "handler", conn |-> 0, handler |-> handler, key |-> key,
     arg |-> message, ok |-> ok]

Failed(calls) == \E i \in 1..Len(calls) : ~calls[i].ok

Count(calls, name) == Cardinality({i \in 1..Len(calls) : calls[i].name = name})

\* ------------------------------------------------------------ initialize
\* DaprClient() either raises (logged, re-raised, self.client untouched) or
\* yields a new open client that replaces self.client.
NewClient == Len(conns) + 1

Initialize(ok) ==
    /\ Len(conns) < MaxConns
    /\ IF ok
       THEN /\ client' = NewClient
            /\ conns' = Append(conns, "open")
            /\ last' = [Idle EXCEPT !.op = "initialize",
                                    !.calls = <<Call("DaprClient", NewClient, <<>>, TRUE)>>]
       ELSE /\ UNCHANGED <<client, conns>>
            /\ last' = [Idle EXCEPT !.op = "initialize", !.outcome = "raised",
                                    !.calls = <<Call("DaprClient", 0, <<>>, FALSE)>>,
                                    !.logged = "initialize"]
    /\ UNCHANGED <<message_handlers, store, lastSave, lastSubscribe, firstOrder, lastOrder, codec,
                   proc>>

\* --------------------------------------------------------------- cleanup
Cleanup ==
    /\ IF client # 0
       THEN /\ conns' = [conns EXCEPT ![client] = "closed"]
            /\ last' = [Idle EXCEPT !.op = "cleanup",
                                    !.result = <<conns[client]>>,
                                    !.calls = <<Call("close", client, <<>>, TRUE)>>]
       ELSE /\ UNCHANGED conns
            /\ last' = [Idle EXCEPT !.op = "cleanup"]
    /\ UNCHANGED <<client, message_handlers, store, lastSave, lastSubscribe, firstOrder, lastOrder, codec,
                   proc>>

\* ------------------------------------------------------- lazy connection
\* "if not self.client: await self.initialize()" at the head of publish,
\* load and save.  [raised, client, conns, calls] after that statement.
NoClient(c) == c = 0

Lazy(connOk) ==
    IF ~NoClient(client)
    THEN [raised |-> FALSE, client |-> client, conns |-> conns, calls |-> <<>>]
    ELSE IF connOk
    THEN [raised |-> FALSE, client |-> NewClient, conns |-> Append(conns, "open"),
          calls |-> <<Call("DaprClient", NewClient, <<>>, TRUE)>>]
    ELSE [raised |-> TRUE, client |-> client, conns |-> conns,
          calls |-> <<Call("DaprClient", 0, <<>>, FALSE)>>]

\* DaprClient() is reached, and can fail, only when no client is held.
ConnectOutcomes == IF NoClient(client) THEN BOOLEAN ELSE {TRUE}

\* A call on the client held succeeds only on an open client, and then only
\* if the sidecar accepts it.
Usable(lz) == lz.client # 0 /\ lz.conns[lz.client] = "open"

\* ------------------------------------------------------- publish_message
\* The except clause of publish_message logs and re-raises.
PublishOutcome(failed) == IF failed THEN "raised" ELSE "returned"

\* PublishAttempts sending a second time when the first attempt fails.
PublishAttemptsRetry(lz, data, sendOk) ==
    IF Usable(lz) /\ sendOk
    THEN <<Call("publish_event", lz.client, data, TRUE)>>
    ELSE <<Call("publish_event", lz.client, data, FALSE),
           Call("publish_event", lz.client, data, Usable(lz))>>

\* The publish_event calls one publish_message makes on payload data.
PublishAttempts(lz, data, sendOk) ==
    <<Call("publish_event", lz.client, data, Usable(lz) /\ sendOk)>>

\* json.dumps(message_data) for each message the model publishes, tabulated.
Payload == [m \in Messages |-> json_dumps(MessageData(m))]

Publish(message, connOk, sendOk) ==
    LET lz    == Lazy(connOk)
        data  == Payload[message]
        calls == IF lz.raised THEN lz.calls
                 ELSE lz.calls \o PublishAttempts(lz, data, sendOk)
    IN  /\ client' = lz.client
        /\ conns' = lz.conns
        /\ last' = [Idle EXCEPT !.op = "publish",
                                !.arg = message,
                                !.calls = calls,
                                !.outcome = IF lz.raised THEN "raised"
                                            ELSE PublishOutcome(Failed(calls)),
                                !.logged = IF lz.raised THEN "initialize"
                                           ELSE IF Failed(calls) THEN "publish"
                                           ELSE "none"]
        /\ UNCHANGED <<message_handlers, store, lastSave, lastSubscribe, firstOrder, lastOrder, codec,
                   proc>>

\* ------------------------------------------------- subscribe_to_messages
\* self.message_handlers[agent_name] = handler_func on an insertion-ordered
\* dict: an existing key keeps its place and takes the new value.
HasKey(d, k) == \E i \in 1..Len(d) : d[i].agent_name = k

\* DictSet as setdefault: a name already registered keeps its handler.
DictSetKeepFirst(d, k, v) ==
    IF \E i \in 1..Len(d) : d[i].agent_name = k THEN d
    ELSE Append(d, [agent_name |-> k, handler |-> v])

\* DictSet as delete-then-insert: a re-registered name moves to the end.
DictSetMoveToEnd(d, k, v) ==
    Append(SelectSeq(d, LAMBDA x : x.agent_name # k), [agent_name |-> k, handler |-> v])

DictSet(d, k, v) ==
    IF HasKey(d, k)
    THEN [i \in 1..Len(d) |-> IF d[i].agent_name = k
                              THEN [agent_name |-> k, handler |-> v] ELSE d[i]]
    ELSE Append(d, [agent_name |-> k, handler |-> v])

\* The assignment, and the record of which name subscribed first.
Register(agent_name, handler_func) ==
    /\ message_handlers' = DictSet(message_handlers, agent_name, handler_func)
    /\ lastSubscribe' = [lastSubscribe EXCEPT ![agent_name] = handler_func]
    /\ last' = [Idle EXCEPT !.op = "subscribe",
                            !.arg = [agent_name |-> agent_name, handler |-> handler_func],
                            !.result = <<lastSubscribe[agent_name]>>]
    /\ firstOrder' = IF \E i \in 1..Len(firstOrder) : firstOrder[i] = agent_name
                     THEN firstOrder ELSE Append(firstOrder, agent_name)
    /\ UNCHANGED <<client, conns, store, lastSave, codec, proc>>

Subscribe(agent_name, handler_func) ==
    /\ Register(agent_name, handler_func)
    /\ UNCHANGED lastOrder

\* subscribe_to_messages, with the order of the latest subscribes recorded too.
SubscribeInOrder(agent_name, handler_func) ==
    /\ Register(agent_name, handler_func)
    /\ lastOrder' = Append(SelectSeq(lastOrder, LAMBDA n : n # agent_name), agent_name)

\* ------------------------------------------------ handle_incoming_message
\* The event dict handed over by the subscription: its "data" entry is the
\* JSON text of the payload.
Event(text) == [data |-> text]

Without(obj, k) == [f \in (DOMAIN obj) \ {k} |-> obj[f]]

NotATimestamp == <<"y", "e", "s", "t", "e", "r", "d", "a", "y">>

WellFormedEvents == {Event(json_dumps(MessageData(m))) : m \in Messages}

MalformedEvents ==
    { Event(json_dumps(Without(MessageData(M1), "message_id"))),
      Event(json_dumps(Without(MessageData(M2), "agent_name"))),
      Event(json_dumps([MessageData(M3) EXCEPT !.timestamp = NotATimestamp])),
      Event(NotJson),
      [topic |-> "agent-messages"] }

Events == WellFormedEvents \cup MalformedEvents

\* event_data.get('data', '{}')
EventData(event_data) ==
    IF "data" \in DOMAIN event_data THEN event_data.data
    ELSE json_dumps([f \in {} |-> ""])

\* json.loads(...) followed by the ChatMessage construction, tabulated for
\* the events of the model.
Decoded ==
    [ev \in Events |->
        IF EventData(ev).valid THEN DecodeMessage(EventData(ev).doc) ELSE Undecodable]

\* Eligible without the sender test.
EligibleAll(agent_name, message) == TRUE

\* "if agent_name != message.agent_name" -- don't send to sender
Eligible(agent_name, message) == agent_name # message.agent_name

\* Route leaving the loop after the first handler it awaits.
RouteFirst(handlers, message, raising) ==
    LET idx == {i \in 1..Len(handlers) : handlers[i].agent_name # message.agent_name}
    IN  IF idx = {} THEN <<>>
        ELSE LET i == CHOOSE j \in idx : \A k \in idx : j <= k
             IN  <<HandlerCall(handlers[i].handler, handlers[i].agent_name, message,
                               handlers[i].handler \notin raising)>>

\* Route with each await wrapped on its own: the loop goes on after a failure.
RECURSIVE RouteContinue(_, _, _)
RouteContinue(handlers, message, raising) ==
    IF handlers = <<>> THEN <<>>
    ELSE LET e == Head(handlers)
         IN  IF e.agent_name = message.agent_name
             THEN RouteContinue(Tail(handlers), message, raising)
             ELSE <<HandlerCall(e.handler, e.agent_name, message, e.handler \notin raising)>>
                    \o RouteContinue(Tail(handlers), message, raising)

\* The for loop over self.message_handlers.items(): the handlers awaited, in
\* order; a handler in `raising` raises and ends the loop.
RECURSIVE Route(_, _, _)
Route(handlers, message, raising) ==
    IF handlers = <<>> THEN <<>>
    ELSE LET e == Head(handlers)
         IN  IF ~Eligible(e.agent_name, message)
             THEN Route(Tail(handlers), message, raising)
             ELSE IF e.handler \in raising
             THEN <<HandlerCall(e.handler, e.agent_name, message, FALSE)>>
             ELSE <<HandlerCall(e.handler, e.agent_name, message, TRUE)>>
                    \o Route(Tail(handlers), message, raising)

\* DispatchOutcome with the except clause re-raising.
DispatchOutcomeRaise(failed) == IF failed THEN "raised" ELSE "returned"

\* "except Exception as e: logger.error(...)": whatever failed inside the try
\* block, handle_incoming_message returns normally.
DispatchOutcome(failed) == "returned"

Dispatch(event_data, raising) ==
    LET decoded == Decoded[event_data]
        calls   == IF decoded.ok
                   THEN Route(message_handlers, decoded.value, raising) ELSE <<>>
        failed  == ~decoded.ok \/ Failed(calls)
    IN  /\ last' = [Idle EXCEPT !.op = "dispatch",
                                !.arg = event_data,
                                !.result = IF decoded.ok THEN <<decoded.value>> ELSE <<>>,
                                !.calls = calls,
                                !.outcome = DispatchOutcome(failed),
                                !.logged = IF failed THEN "handle_incoming_message"
                                           ELSE "none"]
        /\ UNCHANGED <<client, conns, message_handlers, store, lastSave, lastSubscribe, firstOrder, lastOrder, codec,
                   proc>>

\* -------------------------------------------------------- get_chat_history
DefaultLimit == 100

Limits == (0..MaxLimit) \cup {DefaultLimit}

\* The chat histories the model saves.
Histories == UNION {[1..n -> Messages] : n \in 0..MaxLog}

\* The dicts save_chat_history writes, and what get_chat_history builds from
\* each, tabulated.
Entry == [m \in Messages |-> HistoryEntry(m)]

StoredEntries == {Entry[m] : m \in Messages}

\* Entries of the list under the key that did not come from
\* save_chat_history: one lacks a field, one carries no ISO timestamp.
CorruptEntries ==
    { Without(Entry[M1], "message_id"),
      [Entry[M2] EXCEPT !.timestamp = NotATimestamp] }

EntryDecoded == [e \in StoredEntries \cup CorruptEntries |-> DecodeEntry(e)]

\* history_data[-limit:]
LastSlice(history_data, limit) ==
    LET n      == Len(history_data)
        start0 == 0 - limit
        start  == IF start0 < 0
                  THEN (IF n + start0 < 0 THEN 0 ELSE n + start0)
                  ELSE (IF start0 > n THEN n ELSE start0)
    IN  SubSeq(history_data, start + 1, n)

\* "if response.data:" -- the key holds a non-empty value
HasData(data) == data # <<>>

\* ReadHistory taking every value of the key for an empty one.
ReadHistoryEmpty(data, limit) == [ok |-> TRUE, value |-> <<>>]

\* The try block after get_state returned `data`: [ok |-> FALSE] when it
\* raises, else [ok |-> TRUE, value |-> what it returns].  Falling out of the
\* if reaches "return []".
ReadHistory(data, limit) ==
    IF ~HasData(data) THEN [ok |-> TRUE, value |-> <<>>]
    ELSE IF ~data[1].valid THEN [ok |-> FALSE, value |-> <<>>]
    ELSE LET slice == LastSlice(data[1].doc, limit)
         IN  IF \E i \in 1..Len(slice) : ~EntryDecoded[slice[i]].ok
             THEN [ok |-> FALSE, value |-> <<>>]
             ELSE [ok |-> TRUE,
                   value |-> [i \in 1..Len(slice) |-> EntryDecoded[slice[i]].value]]

\* LoadOutcome re-raising what it logged.
LoadOutcomeRaise(failed) == IF failed THEN "raised" ELSE "returned"

\* "except Exception as e: logger.error(...)" then "return []"
LoadOutcome(failed) == "returned"

GetChatHistory(limit, connOk, readOk) ==
    LET lz     == Lazy(connOk)
        got    == Usable(lz) /\ readOk
        calls  == IF lz.raised THEN lz.calls
                  ELSE lz.calls \o <<Call("get_state", lz.client, <<>>, got)>>
        read   == IF got THEN ReadHistory(store, limit) ELSE [ok |-> FALSE, value |-> <<>>]
    IN  /\ client' = lz.client
        /\ conns' = lz.conns
        /\ last' = [Idle EXCEPT !.op = "load",
                                !.arg = limit,
                                !.calls = calls,
                                !.outcome = IF lz.raised THEN "raised"
                                            ELSE LoadOutcome(~read.ok),
                                !.result = IF lz.raised \/ ~read.ok THEN <<>> ELSE read.value,
                                !.logged = IF lz.raised THEN "initialize"
                                           ELSE IF ~read.ok THEN "get_chat_history"
                                           ELSE "none"]
        /\ UNCHANGED <<message_handlers, store, lastSave, lastSubscribe, firstOrder, lastOrder, codec,
                   proc>>

\* ------------------------------------------------------- save_chat_history
\* history_data: one dict per message, in order
HistoryData(messages) == [i \in 1..Len(messages) |-> Entry[messages[i]]]

\* NewStore appending to the log already persisted.
NewStoreAppend(messages) ==
    <<json_dumps((IF store = <<>> THEN <<>> ELSE store[1].doc) \o HistoryData(messages))>>

\* What save_state leaves under the key
NewStore(messages) == <<json_dumps(HistoryData(messages))>>

\* "except Exception as e: logger.error(...)": save_chat_history returns
\* normally whether or not save_state raised.
SaveOutcome(failed) == "returned"

SaveChatHistory(messages, connOk, writeOk) ==
    LET lz      == Lazy(connOk)
        written == Usable(lz) /\ writeOk
        calls   == IF lz.raised THEN lz.calls
                   ELSE lz.calls \o <<Call("save_state", lz.client, <<>>, written)>>
    IN  /\ client' = lz.client
        /\ conns' = lz.conns
        /\ IF ~lz.raised /\ written
           THEN /\ store' = NewStore(messages)
                /\ lastSave' = <<messages>>
           ELSE UNCHANGED <<store, lastSave>>
        /\ last' = [Idle EXCEPT !.op = "save",
                                !.arg = Len(messages),
                                !.result = IF store = <<>> THEN <<>>
                                           ELSE <<Len(store[1].doc)>>,
                                !.calls = calls,
                                !.outcome = IF lz.raised THEN "raised"
                                            ELSE SaveOutcome(~written),
                                !.logged = IF lz.raised THEN "initialize"
                                           ELSE IF ~written THEN "save_chat_history"
                                           ELSE "none"]
        /\ UNCHANGED <<message_handlers, lastSubscribe, firstOrder, lastOrder, codec,
                   proc>>

\* ---------------------------------------------------------- specification
Next ==
    \/ \E ok \in BOOLEAN : Initialize(ok)
    \/ Cleanup
    \/ \E m \in Messages, connOk \in ConnectOutcomes, sendOk \in BOOLEAN : Publish(m, connOk, sendOk)
    \/ \E a \in AgentNames, h \in Handlers : Subscribe(a, h)
    \/ \E ev \in Events, raising \in SUBSET Handlers : Dispatch(ev, raising)

Spec == Init /\ [][Next]_vars

\* ------------------------------------------------- wire form, there and back
Timestamps ==
    { [year |-> y, month |-> md[1], day |-> md[2], hour |-> h, minute |-> mi,
       second |-> sec, microsecond |-> us, tz |-> tz] :
        y \in {1, 2024, 9999}, md \in {<<1, 1>>, <<2, 28>>, <<2, 29>>, <<12, 31>>},
        h \in {0, 23}, mi \in {0, 59}, sec \in {0, 59},
        us \in {0, 1, 123000, 999999},
        tz \in {NoTz, <<0>>, <<19800>>, <<0 - 18000>>, <<3723>>, <<0 - 86399>>} }

\* The ChatMessage values taken through the wire form: every valid datetime
\* of Timestamps.
CodecMessages ==
    { ChatMessage(a, "assistant", "text", t, "id-0") :
        a \in AgentNames,
        t \in {x \in Timestamps : x.day <= DaysInMonth(x.year, x.month)} }

CodecInit ==
    /\ client = 0
    /\ conns = <<>>
    /\ message_handlers = <<>>
    /\ store = <<>>
    /\ lastSave = <<>>
    /\ lastSubscribe = [a \in AgentNames |-> ""]
    /\ firstOrder = <<>>
    /\ lastOrder = <<>>
    /\ proc = NoProc
    /\ last = Idle
    /\ \E m \in CodecMessages, path \in {"pubsub", "history"} :
          codec = [pc |-> "new", path |-> path, message |-> m]

\* publish_message builds message_data and dumps it; save_chat_history
\* builds history_data and dumps it.
CodecEncode ==
    /\ codec.pc = "new"
    /\ codec' = [pc |-> "encoded", path |-> codec.path, message |-> codec.message,
                 wire |-> IF codec.path = "pubsub"
                          THEN json_dumps(MessageData(codec.message))
                          ELSE json_dumps(<<HistoryEntry(codec.message)>>)]
    /\ UNCHANGED <<client, conns, message_handlers, store, lastSave, lastSubscribe,
                   firstOrder, lastOrder, last, proc>>

\* handle_incoming_message loads the payload and builds the ChatMessage;
\* get_chat_history loads the list and builds one ChatMessage per entry.
CodecDecode ==
    /\ codec.pc = "encoded"
    /\ codec' = [pc |-> "decoded", path |-> codec.path, message |-> codec.message,
                 wire |-> codec.wire,
                 back |-> IF codec.path = "pubsub"
                          THEN DecodeMessage(codec.wire.doc)
                          ELSE DecodeEntry(codec.wire.doc[1])]
    /\ UNCHANGED <<client, conns, message_handlers, store, lastSave, lastSubscribe,
                   firstOrder, lastOrder, last, proc>>

NextCodec == CodecEncode \/ CodecDecode

SpecCodec == CodecInit /\ [][NextCodec]_vars

\* The connection lifecycle with the chat history operations.
NextHistory ==
    \/ \E ok \in BOOLEAN : Initialize(ok)
    \/ Cleanup
    \/ \E limit \in Limits, connOk \in ConnectOutcomes, readOk \in BOOLEAN :
          GetChatHistory(limit, connOk, readOk)
    \/ \E messages \in Histories, connOk \in ConnectOutcomes, writeOk \in BOOLEAN :
          SaveChatHistory(messages, connOk, writeOk)

SpecHistory == Init /\ [][NextHistory]_vars

\* Subscribes, with their order recorded, and dispatches.
NextOrder ==
    \/ \E a \in AgentNames, h \in Handlers : SubscribeInOrder(a, h)
    \/ \E ev \in Events, raising \in SUBSET Handlers : Dispatch(ev, raising)

SpecOrder == Init /\ [][NextOrder]_vars

\* connect, close, publish, load and save on one manager.
NextLifecycle ==
    \/ \E ok \in BOOLEAN : Initialize(ok)
    \/ Cleanup
    \/ \E limit \in Limits, connOk \in ConnectOutcomes, readOk \in BOOLEAN :
          GetChatHistory(limit, connOk, readOk)
    \/ \E messages \in Histories, connOk \in ConnectOutcomes, writeOk \in BOOLEAN :
          SaveChatHistory(messages, connOk, writeOk)
    \/ \E m \in Messages, connOk \in ConnectOutcomes, sendOk \in BOOLEAN : Publish(m, connOk, sendOk)

SpecLifecycle == Init /\ [][NextLifecycle]_vars

\* ------------------------------------- loads of a log written elsewhere
\* The lists get_state can return when other programs write the key too.
ForeignLogs == UNION {[1..n -> StoredEntries \cup CorruptEntries] : n \in 0..MaxLog}

ForeignInit ==
    /\ client = 0
    /\ conns = <<>>
    /\ message_handlers = <<>>
    /\ lastSave = <<>>
    /\ lastSubscribe = [a \in AgentNames |-> ""]
    /\ firstOrder = <<>>
    /\ lastOrder = <<>>
    /\ last = Idle
    /\ codec = CodecIdle
    /\ proc = NoProc
    /\ \E log \in ForeignLogs : store = <<json_dumps(log)>>

NextForeign ==
    \/ \E ok \in BOOLEAN : Initialize(ok)
    \/ Cleanup
    \/ \E limit \in Limits, connOk \in ConnectOutcomes, readOk \in BOOLEAN :
          GetChatHistory(limit, connOk, readOk)

SpecForeign == ForeignInit /\ [][NextForeign]_vars

\* ------------------------------------------------------- message_handler
\* FreshHandlers reading the table of the long-lived manager.
SharedHandlers == message_handlers

\* self.message_handlers of the DaprChatManager() message_handler constructs.
FreshHandlers == <<>>

\* The object the subscription hands to message_handler: its data attribute
\* is what handle_incoming_message receives.
CloudEvents == {[data |-> ev] : ev \in Events}

\* message_handler(event): a new manager, then handle_incoming_message on it.
MessageHandler(event, raising) ==
    LET event_data == event.data
        decoded    == Decoded[event_data]
        calls      == IF decoded.ok
                      THEN Route(FreshHandlers, decoded.value, raising) ELSE <<>>
        failed     == ~decoded.ok \/ Failed(calls)
    IN  /\ last' = [Idle EXCEPT !.op = "message_handler",
                                !.arg = event_data,
                                !.result = IF decoded.ok THEN <<decoded.value>> ELSE <<>>,
                                !.calls = calls,
                                !.outcome = DispatchOutcome(failed),
                                !.logged = IF failed THEN "handle_incoming_message"
                                           ELSE "none"]
        /\ UNCHANGED <<client, conns, message_handlers, store, lastSave, lastSubscribe,
                       firstOrder, lastOrder, codec, proc>>

\* A long-lived manager with subscriptions, next to the subscription entrypoint.
NextEntry ==
    \/ \E a \in AgentNames, h \in Handlers : Subscribe(a, h)
    \/ \E ev \in Events, raising \in SUBSET Handlers : Dispatch(ev, raising)
    \/ \E event \in CloudEvents, raising \in SUBSET Handlers : MessageHandler(event, raising)

SpecEntry == Init /\ [][NextEntry]_vars

\* ------------------------------------------- two load-then-save writers
\* Two processes, each with a DaprChatManager of its own, run
\* get_chat_history() and then save_chat_history(loaded + [own message]) on
\* the one "chat-history" key.  Nothing orders their calls.
WriterIds == {1, 2}

\* The message each writer appends.
WriterMessage == <<M1, M2>>

\* The logs under the key when the writers start.
WriterLogs == {h \in Histories : \A i \in 1..Len(h) : h[i] = M3}

NewWriter == [pc |-> "load", client |-> 0, history |-> <<>>, clean |-> TRUE, outcome |-> "none"]

WritersInit ==
    /\ client = 0
    /\ conns = <<>>
    /\ message_handlers = <<>>
    /\ lastSubscribe = [a \in AgentNames |-> ""]
    /\ firstOrder = <<>>
    /\ lastOrder = <<>>
    /\ last = Idle
    /\ codec = CodecIdle
    /\ \/ /\ store = <<>>
          /\ lastSave = <<>>
       \/ \E h \in WriterLogs :
             /\ store = NewStore(h)
             /\ lastSave = <<h>>
    /\ proc = [pc |-> "writers", initial |-> Persisted0(lastSave),
               w |-> [i \in WriterIds |-> NewWriter], trace |-> <<>>]

\* get_chat_history() of writer w's manager: no client is held yet, so it
\* connects first; limit takes its default.
WriterLoad(w, connOk, readOk) ==
    /\ proc.pc = "writers"
    /\ proc.w[w].pc = "load"
    /\ IF ~connOk
       THEN /\ proc' = [proc EXCEPT !.w[w].pc = "raised", !.w[w].outcome = "raised"]
            /\ last' = [Idle EXCEPT !.op = "load", !.arg = DefaultLimit,
                                    !.outcome = "raised", !.logged = "initialize",
                                    !.calls = <<Call("DaprClient", 0, <<>>, FALSE)>>]
            /\ UNCHANGED conns
       ELSE LET read == IF readOk THEN ReadHistory(store, DefaultLimit)
                        ELSE [ok |-> FALSE, value |-> <<>>]
            IN  /\ conns' = Append(conns, "open")
                /\ proc' = [proc EXCEPT !.w[w].pc = "save",
                                        !.w[w].client = NewClient,
                                        !.w[w].history = IF read.ok THEN read.value ELSE <<>>,
                                        !.w[w].clean = readOk,
                                        !.w[w].outcome = LoadOutcome(~read.ok),
                                        !.trace = Append(proc.trace, <<w, "load">>)]
                /\ last' = [Idle EXCEPT !.op = "load", !.arg = DefaultLimit,
                                        !.outcome = LoadOutcome(~read.ok),
                                        !.result = IF read.ok THEN read.value ELSE <<>>,
                                        !.logged = IF read.ok THEN "none" ELSE "get_chat_history",
                                        !.calls = <<Call("DaprClient", NewClient, <<>>, TRUE),
                                                    Call("get_state", NewClient, <<>>, readOk)>>]
    /\ UNCHANGED <<client, message_handlers, store, lastSave, lastSubscribe, firstOrder,
                   lastOrder, codec>>

\* save_chat_history(loaded + [own message]) of writer w's manager, which
\* holds the client its load opened.
WriterSave(w, writeOk) ==
    /\ proc.pc = "writers"
    /\ proc.w[w].pc = "save"
    /\ LET messages == Append(proc.w[w].history, WriterMessage[w])
       IN  /\ IF writeOk
              THEN /\ store' = NewStore(messages)
                   /\ lastSave' = <<messages>>
              ELSE UNCHANGED <<store, lastSave>>
           /\ proc' = [proc EXCEPT !.w[w].pc = "done",
                                   !.w[w].history = messages,
                                   !.w[w].clean = proc.w[w].clean /\ writeOk,
                                   !.w[w].outcome = SaveOutcome(~writeOk),
                                   !.trace = Append(proc.trace, <<w, "save">>)]
           /\ last' = [Idle EXCEPT !.op = "save", !.arg = Len(messages),
                                   !.outcome = SaveOutcome(~writeOk),
                                   !.logged = IF writeOk THEN "none" ELSE "save_chat_history",
                                   !.calls = <<Call("save_state", proc.w[w].client, <<>>, writeOk)>>]
    /\ UNCHANGED <<client, conns, message_handlers, lastSubscribe, firstOrder, lastOrder, codec>>

NextWriters ==
    \/ \E w \in WriterIds, connOk \in BOOLEAN, readOk \in BOOLEAN : WriterLoad(w, connOk, readOk)
    \/ \E w \in WriterIds, writeOk \in BOOLEAN : WriterSave(w, writeOk)

SpecWriters == WritersInit /\ [][NextWriters]_vars

\* ---------------------------------------------------- send_agent_message
\* The values datetime.now() and str(uuid.uuid4()) take in the model.
Nows == {Naive(2024, 2, 29, 9, 5, 0, 0), Naive(2024, 12, 31, 23, 59, 59, 999999)}

Uuids == {"id-4", "id-5"}

Roles == {"assistant", "user"}

Contents == {"analysis", ""}

\* One call send_agent_message(agent_name, role, content), about to run.
SendInit ==
    /\ client = 0
    /\ conns = <<>>
    /\ message_handlers = <<>>
    /\ store = <<>>
    /\ lastSave = <<>>
    /\ lastSubscribe = [a \in AgentNames |-> ""]
    /\ firstOrder = <<>>
    /\ lastOrder = <<>>
    /\ last = Idle
    /\ codec = CodecIdle
    /\ \E a \in AgentNames, r \in Roles, c \in Contents :
          proc = [pc |-> "start", agent_name |-> a, role |-> r, content |-> c,
                  message |-> <<>>, result |-> <<>>]

\* message = ChatMessage(..., timestamp=datetime.now(), message_id=str(uuid.uuid4()))
SendBuild(now, uuid) ==
    /\ proc.pc = "start"
    /\ proc' = [proc EXCEPT !.pc = "built",
                            !.message = <<ChatMessage(proc.agent_name, proc.role, proc.content,
                                                      now, uuid)>>]
    /\ UNCHANGED <<client, conns, message_handlers, store, lastSave, lastSubscribe,
                   firstOrder, lastOrder, last, codec>>

\* manager = await create_chat_manager(): a new manager, initialized; a
\* failing DaprClient() raises out of send_agent_message.
SendCreate(ok) ==
    /\ proc.pc = "built"
    /\ IF ok
       THEN /\ client' = NewClient
            /\ conns' = Append(conns, "open")
            /\ proc' = [proc EXCEPT !.pc = "created"]
            /\ last' = [Idle EXCEPT !.op = "initialize",
                                    !.calls = <<Call("DaprClient", NewClient, <<>>, TRUE)>>]
       ELSE /\ UNCHANGED <<client, conns>>
            /\ proc' = [proc EXCEPT !.pc = "raised"]
            /\ last' = [Idle EXCEPT !.op = "initialize", !.outcome = "raised",
                                    !.calls = <<Call("DaprClient", 0, <<>>, FALSE)>>,
                                    !.logged = "initialize"]
    /\ UNCHANGED <<message_handlers, store, lastSave, lastSubscribe, firstOrder, lastOrder,
                   codec>>

\* await manager.publish_message(message): when it raises, the statements
\* after it do not run.
SendPublish(sendOk) ==
    /\ proc.pc = "created"
    /\ LET lz      == [raised |-> FALSE, client |-> client, conns |-> conns, calls |-> <<>>]
           calls   == PublishAttempts(lz, json_dumps(MessageData(proc.message[1])), sendOk)
           outcome == PublishOutcome(Failed(calls))
       IN  /\ proc' = [proc EXCEPT !.pc = IF outcome = "raised" THEN "raised" ELSE "published"]
           /\ last' = [Idle EXCEPT !.op = "publish",
                                   !.arg = proc.message[1],
                                   !.calls = calls,
                                   !.outcome = outcome,
                                   !.logged = IF Failed(calls) THEN "publish" ELSE "none"]
    /\ UNCHANGED <<client, conns, message_handlers, store, lastSave, lastSubscribe,
                   firstOrder, lastOrder, codec>>

\* await manager.cleanup(), then return message.message_id
SendCleanup ==
    /\ proc.pc = "published"
    /\ conns' = [conns EXCEPT ![client] = "closed"]
    /\ proc' = [proc EXCEPT !.pc = "returned", !.result = <<proc.message[1].message_id>>]
    /\ last' = [Idle EXCEPT !.op = "cleanup",
                            !.result = <<conns[client]>>,
                            !.calls = <<Call("close", client, <<>>, TRUE)>>]
    /\ UNCHANGED <<client, message_handlers, store, lastSave, lastSubscribe, firstOrder,
                   lastOrder, codec>>

NextSend ==
    \/ \E now \in Nows, uuid \in Uuids : SendBuild(now, uuid)
    \/ \E ok \in BOOLEAN : SendCreate(ok)
    \/ \E sendOk \in BOOLEAN : SendPublish(sendOk)
    \/ SendCleanup

SpecSend == SendInit /\ [][NextSend]_vars

\* ================================================================ claims
\* The agent name an event carries, and the message a well-formed event encodes.
Sender(event_data) == event_data.data.doc.agent_name

Published(event_data) == CHOOSE m \in Messages : Event(json_dumps(MessageData(m))) = event_data

CallsTo(calls, key) == {i \in 1..Len(calls) : calls[i].key = key}

DispatchedWellFormed == last.op = "dispatch" /\ last.arg \in WellFormedEvents

\* C1 -- Self-exclusion: dispatching a well-formed event whose agent_name is X
\* never invokes the handler registered under X, whatever else is registered
\* and in whatever order.
C1_SelfExclusion ==
    DispatchedWellFormed =>
        \A i \in 1..Len(last.calls) : last.calls[i].key # Sender(last.arg)

C1_Witness ==
    /\ DispatchedWellFormed
    /\ HasKey(message_handlers, Sender(last.arg))
    /\ message_handlers[1].agent_name # Sender(last.arg)
    /\ message_handlers[Len(message_handlers)].agent_name # Sender(last.arg)
    /\ Len(last.calls) = 2

\* C2 -- Cross-delivery: when a well-formed event from B is dispatched and no
\* handler fails, every handler registered under a name other than B is
\* invoked exactly once, with the decoded message (agent_name B), and nothing
\* else is invoked.
C2_CrossDelivery ==
    (DispatchedWellFormed /\ ~Failed(last.calls)) =>
        LET B == Sender(last.arg)
        IN  /\ \A e \in 1..Len(message_handlers) :
                  message_handlers[e].agent_name # B =>
                      /\ Cardinality(CallsTo(last.calls, message_handlers[e].agent_name)) = 1
                      /\ \A i \in CallsTo(last.calls, message_handlers[e].agent_name) :
                            /\ last.calls[i].handler = message_handlers[e].handler
                            /\ last.calls[i].arg = Published(last.arg)
                            /\ last.calls[i].arg.agent_name = B
            /\ \A i \in 1..Len(last.calls) :
                  /\ last.calls[i].key # B
                  /\ HasKey(message_handlers, last.calls[i].key)

C2_Witness ==
    /\ DispatchedWellFormed
    /\ ~Failed(last.calls)
    /\ Sender(last.arg) = "B"
    /\ HasKey(message_handlers, "A") /\ HasKey(message_handlers, "B")
    /\ Cardinality(CallsTo(last.calls, "A")) = 1

\* C6 -- Malformed input: dispatching an event that lacks a required field or
\* carries an unparsable timestamp invokes no handler, lets no exception
\* escape and leaves the handler table as it was.
C6_MalformedDropped ==
    [][(last'.op = "dispatch" /\ last'.arg \in MalformedEvents) =>
          /\ Len(last'.calls) = 0
          /\ last'.outcome = "returned"
          /\ message_handlers' = message_handlers]_vars

C6_Witness ==
    /\ last.op = "dispatch"
    /\ last.arg = Event(json_dumps(Without(MessageData(M1), "message_id")))
    /\ HasKey(message_handlers, "B") /\ HasKey(message_handlers, "C")
    /\ last.logged = "handle_incoming_message"
    /\ last.calls = <<>>

\* C8 -- Publish failure is surfaced without retry: a publish call makes at
\* most one publish_event attempt, and when that attempt or the lazy connect
\* before it fails the call raises and nothing is attempted after the failure.
C8_PublishNoRetry ==
    last.op = "publish" =>
        /\ Count(last.calls, "publish_event") <= 1
        /\ Failed(last.calls) =>
              /\ last.outcome = "raised"
              /\ ~last.calls[Len(last.calls)].ok
              /\ \A i \in 1..(Len(last.calls) - 1) : last.calls[i].ok

C8_Witness ==
    /\ last.op = "publish"
    /\ Count(last.calls, "publish_event") = 1
    /\ Failed(last.calls)
    /\ client # 0 /\ conns[client] = "open"

\* C9 -- Last registration wins: the handler table holds at most one handler
\* per agent name, the one of the most recent subscribe for that name; a
\* dispatch invokes only that handler for the name; a duplicate subscribe
\* raises nothing.
C9_LastRegistrationWins ==
    /\ \A a \in AgentNames :
          LET at == {i \in 1..Len(message_handlers) : message_handlers[i].agent_name = a}
          IN  /\ Cardinality(at) = (IF lastSubscribe[a] = "" THEN 0 ELSE 1)
              /\ \A i \in at : message_handlers[i].handler = lastSubscribe[a]
    /\ last.op = "dispatch" =>
          \A i \in 1..Len(last.calls) :
              /\ last.calls[i].handler = lastSubscribe[last.calls[i].key]
              /\ Cardinality(CallsTo(last.calls, last.calls[i].key)) = 1
    /\ last.op = "subscribe" => last.outcome = "returned"

C9_Witness ==
    /\ last.op = "subscribe"
    /\ last.result[1] \notin {"", last.arg.handler}
    /\ Len(message_handlers) = 2

\* The log a successful save persisted last; empty before any save.
Persisted == IF lastSave = <<>> THEN <<>> ELSE lastSave[1]

Min(a, b) == IF a < b THEN a ELSE b

Suffix(S, n) == SubSeq(S, Len(S) - n + 1, Len(S))

GotState(calls) == \E i \in 1..Len(calls) : calls[i].name = "get_state" /\ calls[i].ok

ReadFailed(calls) == \E i \in 1..Len(calls) : calls[i].name = "get_state" /\ ~calls[i].ok

WriteFailed(calls) == \E i \in 1..Len(calls) : calls[i].name = "save_state" /\ ~calls[i].ok

Written(calls) == \E i \in 1..Len(calls) : calls[i].name = "save_state" /\ calls[i].ok

\* C3 -- History load with limit: for every persisted log S and every
\* non-negative limit, 0 included, a load whose read succeeds returns exactly
\* the last min(limit, |S|) messages of S in S's order.
C3_LoadReturnsLastLimit ==
    (last.op = "load" /\ GotState(last.calls)) =>
        /\ last.outcome = "returned"
        /\ last.result = Suffix(Persisted, Min(last.arg, Len(Persisted)))

\* C4 -- Overwrite semantics: the persisted log is exactly the sequence passed
\* to the most recent successful save, element for element, whatever was
\* saved before.
C4_Overwrite ==
    lastSave # <<>> =>
        /\ store # <<>>
        /\ store[1].valid
        /\ Len(store[1].doc) = Len(lastSave[1])
        /\ \A i \in 1..Len(lastSave[1]) :
              DecodeEntry(store[1].doc[i]) = [ok |-> TRUE, value |-> lastSave[1][i]]

C4_Witness ==
    /\ last.op = "save"
    /\ Written(last.calls)
    /\ last.result = <<1>>
    /\ lastSave = << <<M2, M3>> >>

\* C5 (original) -- load returns an empty sequence and raises nothing whenever
\* no save has happened on the key or the state-store read fails.
C5_LoadNeverRaises ==
    (last.op = "load" /\ (lastSave = <<>> \/ ReadFailed(last.calls))) =>
        /\ last.outcome = "returned"
        /\ last.result = <<>>

\* C5 (amended) -- once load holds a client (one was held, or the lazy connect
\* succeeded) it returns an empty sequence and raises nothing when no save has
\* happened on the key or the read fails; a load whose lazy connect fails
\* raises without reading.
C5_EmptyOnceConnected ==
    last.op = "load" =>
        IF Count(last.calls, "get_state") = 1
        THEN (lastSave = <<>> \/ ReadFailed(last.calls)) =>
                 /\ last.outcome = "returned"
                 /\ last.result = <<>>
        ELSE /\ Failed(last.calls)
             /\ last.outcome = "raised"

C5_Witness ==
    /\ last.op = "load"
    /\ ReadFailed(last.calls)
    /\ lastSave # <<>> /\ Len(lastSave[1]) = 2
    /\ last.arg = 1
    /\ client # 0 /\ conns[client] = "open"
    /\ last.logged = "get_chat_history"

\* C7 -- Save failure is surfaced: when the save_state call of a save fails,
\* the save raises to its caller and the persisted log stays as it was.
C7_SaveFailureSurfaced ==
    [][(last'.op = "save" /\ WriteFailed(last'.calls)) =>
          /\ last'.outcome = "raised"
          /\ store' = store]_vars

\* C10 -- Round-trip: a ChatMessage encoded to the wire form of publish / save
\* and decoded as dispatch / load do comes back equal in all five fields.
C10_RoundTrip ==
    codec.pc = "decoded" =>
        /\ codec.back.ok
        /\ \A f \in FieldNames : codec.back.value[f] = codec.message[f]

C10_Witness ==
    /\ codec.pc = "decoded"
    /\ codec.path = "history"
    /\ codec.message.timestamp.microsecond = 1
    /\ codec.message.timestamp.tz = <<0 - 86399>>
    /\ codec.back.ok
    /\ codec.back.value.timestamp.microsecond = 1

\* The connections opened and not closed.
OpenConns == {c \in 1..Len(conns) : conns[c] = "open"}

HoldsOpen == client # 0 /\ conns[client] = "open"

\* C11 -- Connect is idempotent: initialize on a manager that already holds an
\* open connection establishes no new connection and leaves the held one as it
\* was; after any number of initialize calls at most one connection opened by
\* the manager is not closed.
C11_ConnectIdempotent ==
    [][last'.op = "initialize" =>
          /\ HoldsOpen => (client' = client /\ conns' = conns)
          /\ Cardinality({c \in 1..Len(conns') : conns'[c] = "open"}) <= 1]_vars

\* C12 -- Close is safe when not connected: a cleanup on a manager that holds
\* no open connection (none ever made, or the one held already closed) makes
\* no transport call and changes no state.
C12_CloseNoop ==
    [][(last'.op = "cleanup" /\ ~HoldsOpen) =>
          /\ last'.calls = <<>>
          /\ client' = client /\ conns' = conns]_vars

TransportCalls == {"publish_event", "get_state", "save_state"}

\* C13 -- Lazy connection: whenever publish, load or save makes its transport
\* call, the call goes out on a connection that is open; an operation started
\* without one, after a close included, opens one first.
C13_TransportOnOpen ==
    last.op \in {"publish", "load", "save"} =>
        \A i \in 1..Len(last.calls) :
            last.calls[i].name \in TransportCalls =>
                /\ last.calls[i].conn \in 1..Len(conns)
                /\ conns[last.calls[i].conn] = "open"

\* C14 (original) -- when a handler invoked by dispatch for a well-formed
\* event raises, the exception propagates out of dispatch to its caller.
C14_HandlerFailurePropagates ==
    (DispatchedWellFormed /\ Failed(last.calls)) => last.outcome = "raised"

\* C14 (amended) -- when a handler invoked by dispatch for a well-formed event
\* raises, dispatch catches the exception, logs it and returns normally.
C14_HandlerFailureLogged ==
    (DispatchedWellFormed /\ Failed(last.calls)) =>
        /\ last.outcome = "returned"
        /\ last.logged = "handle_incoming_message"

C14_Witness ==
    /\ DispatchedWellFormed
    /\ Len(last.calls) = 2
    /\ last.calls[1].ok /\ ~last.calls[2].ok
    /\ last.logged = "handle_incoming_message"

\* The table entries a dispatch of event_data is to invoke, in table order.
EligibleEntries(event_data) ==
    SelectSeq(message_handlers, LAMBDA x : x.agent_name # Sender(event_data))

\* C15 -- Handler failure aborts the remaining dispatch: when the k-th
\* eligible handler raises, the k-1 eligible handlers before it have each been
\* invoked exactly once (and returned), and no eligible handler after it is
\* invoked.
C15_FailureAborts ==
    (DispatchedWellFormed /\ Failed(last.calls)) =>
        LET k  == Len(last.calls)
            el == EligibleEntries(last.arg)
        IN  /\ k <= Len(el)
            /\ ~last.calls[k].ok
            /\ \A i \in 1..k :
                  /\ last.calls[i].key = el[i].agent_name
                  /\ last.calls[i].handler = el[i].handler
                  /\ i < k => last.calls[i].ok
            /\ \A i \in 1..Len(el) :
                  Cardinality(CallsTo(last.calls, el[i].agent_name)) = (IF i <= k THEN 1 ELSE 0)

C15_Witness ==
    /\ DispatchedWellFormed
    /\ Len(EligibleEntries(last.arg)) = 2
    /\ Len(last.calls) = 1
    /\ ~last.calls[1].ok
    /\ EligibleEntries(last.arg)[2].handler # last.calls[1].handler

\* The names of `order` other than the sender of event_data, in that order.
EligibleNames(order, event_data) == SelectSeq(order, LAMBDA n : n # Sender(event_data))

InvokedInOrder(order) ==
    DispatchedWellFormed =>
        LET names == EligibleNames(order, last.arg)
        IN  /\ Len(last.calls) <= Len(names)
            /\ \A i \in 1..Len(last.calls) : last.calls[i].key = names[i]
            /\ ~Failed(last.calls) => Len(last.calls) = Len(names)

\* C16 (original) -- within a dispatch the eligible handlers are invoked in
\* the order in which their registrations were made, the latest subscribe of
\* each name counting as its registration.
C16_LatestRegistrationOrder == InvokedInOrder(lastOrder)

\* C16 (amended) -- within a dispatch the eligible handlers are invoked in the
\* order in which their agent names were first registered; re-registering a
\* name replaces its handler and keeps the name's place in the order.
C16_FirstRegistrationOrder ==
    /\ [i \in 1..Len(message_handlers) |-> message_handlers[i].agent_name] = firstOrder
    /\ InvokedInOrder(firstOrder)

C16_Witness ==
    /\ DispatchedWellFormed
    /\ Len(last.calls) = 2
    /\ lastOrder # firstOrder
    /\ EligibleNames(lastOrder, last.arg) # EligibleNames(firstOrder, last.arg)

WritersDone == proc.pc = "writers" /\ \A w \in WriterIds : proc.w[w].pc = "done"

\* Every transport call of both writers succeeded.
WritersClean == \A w \in WriterIds : proc.w[w].clean

\* Writer a ran its load and its save before writer b loaded.
Serial(a, b) == proc.trace = << <<a, "load">>, <<a, "save">>, <<b, "load">>, <<b, "save">> >>

\* Both writers loaded before either saved, and b saved last.
Interleaved(b) ==
    /\ proc.trace[1][2] = "load" /\ proc.trace[2][2] = "load"
    /\ proc.trace[4] = <<b, "save">>

\* C17 -- Lost update: when two writers each load, append their own message
\* and save, with every transport call succeeding, then after load-then-save
\* sequences that do not interleave the log is the initial log followed by both
\* messages, and after interleaving ones it is the initial log followed by only
\* the message of the writer that saved last; in both cases each load and each
\* save returned normally.
C17_LostUpdate ==
    (WritersDone /\ WritersClean) =>
        /\ \A w \in WriterIds : proc.w[w].outcome = "returned"
        /\ \A a \in WriterIds : \A b \in WriterIds \ {a} :
              /\ Serial(a, b) =>
                    store = NewStore(proc.initial \o <<WriterMessage[a], WriterMessage[b]>>)
              /\ Interleaved(b) =>
                    store = NewStore(proc.initial \o <<WriterMessage[b]>>)
        /\ \E a \in WriterIds : \E b \in WriterIds \ {a} : Serial(a, b) \/ Interleaved(b)

C17_Witness ==
    /\ WritersDone /\ WritersClean
    /\ Interleaved(2)
    /\ proc.initial = <<M3>>
    /\ store = NewStore(<<M3, M2>>)
    /\ \A i \in 1..Len(store[1].doc) : store[1].doc[i] # Entry[M1]
    /\ \A w \in WriterIds : proc.w[w].outcome = "returned"

\* C18 -- Entrypoint isolation: an event arriving through message_handler is
\* dispatched on a newly constructed manager whose handler table is empty, so
\* it invokes no handler, whatever is registered on another manager.
C18_EntrypointIsolated ==
    last.op = "message_handler" => last.calls = <<>>

C18_Witness ==
    /\ last.op = "message_handler"
    /\ last.arg \in WellFormedEvents
    /\ last.result # <<>>
    /\ Len(EligibleEntries(last.arg)) = 2
    /\ last.outcome = "returned"

\* C19 -- Load is all-or-nothing: when an entry among the last `limit` entries
\* of the log under the key cannot be decoded, a load that read the key returns
\* the empty sequence and raises nothing; undecodable entries before the last
\* `limit` entries make no difference: the load returns what it returns for the
\* log with those entries replaced by decodable ones.
C19_AllOrNothing ==
    (last.op = "load" /\ GotState(last.calls) /\ store # <<>>) =>
        LET log      == store[1].doc
            n        == Len(log)
            k        == Min(last.arg, n)
            bad(i)   == ~EntryDecoded[log[i]].ok
            tail(i)  == i > n - k
            repaired == [i \in 1..n |-> IF bad(i) /\ ~tail(i) THEN Entry[M1] ELSE log[i]]
        IN  /\ last.outcome = "returned"
            /\ IF \E i \in 1..n : tail(i) /\ bad(i)
               THEN last.result = <<>>
               ELSE last.result = ReadHistory(<<json_dumps(repaired)>>, last.arg).value

\* C20 -- Connection release in send_agent_message: no call returns or raises
\* leaving a connection it opened open, the path where publish fails included.
C20_ConnectionReleased ==
    proc.pc \in {"returned", "raised"} => OpenConns = {}

====
